---------------------------- MODULE Spec2Model ----------------------------
(***************************************************************************)
(* Model of scripts/update_publications.py: the crawl of a paginated       *)
(* publication listing (fetch_page, parse_rows, fetch_publications), the   *)
(* rendering of the records into a marker-delimited fragment (chunk,       *)
(* build_html), the splice of the fragment into a document (inject_html)   *)
(* and the orchestration (main).                                           *)
(*                                                                         *)
(* Text is a sequence of tokens.  A token is either one character ("x",    *)
(* "<", " ", "\n") or a literal chunk of the program text that the code    *)
(* only ever handles as a whole (the common prefix of the two markers, the *)
(* opening of a year heading, the fixed pieces of a card).  Concatenation, *)
(* slicing, substring test and str.index are the sequence operations.      *)
(***************************************************************************)
EXTENDS Integers, Sequences, FiniteSets, TLC

VARIABLES
    pc,         \* position of the run
    cstart,     \* fetch_publications: offset of the next page
    all_pubs,   \* fetch_publications: accumulator; main: pubs
    log,        \* observation: one entry per call of fetch_page, in call order
    file,       \* content of PAPERS_INDEX
    file0,      \* observation: content of PAPERS_INDEX when the run started
    writes,     \* observation: number of PAPERS_INDEX.write_text calls
    parts,      \* build_html: the list of parts before the join
    html_block, \* main: html_block
    current,    \* main: current
    updated,    \* main: outcome of inject_html(current, html_block)
    again       \* outcome of inject_html on the document of a second run

vars == <<pc, cstart, all_pubs, log, file, file0, writes, parts, html_block,
          current, updated, again>>

-----------------------------------------------------------------------------
(* Bounds of the model *)

MaxPages == 2
MaxRows == 2
MaxPubs == 4
MaxPieces == 4

-----------------------------------------------------------------------------
(* Program constants *)

START_YEAR == 2018
PAGE_SIZE == 20
CHUNK_SIZE == 3

M_PRE == "<!-- AUTO-GENERATED PUBLICATIONS "
M_SUF == " -->"
MARKER_START == <<M_PRE, "START", M_SUF>>
MARKER_END == <<M_PRE, "END", M_SUF>>

BIGTITLE_OPEN == "  <div class=\"bigtitle\">"
DIV_CLOSE == "</div>"
ANCHOR == <<BIGTITLE_OPEN, "2017", DIV_CLOSE>>

SCHOLAR_HOST == "https://scholar.google.com"

-----------------------------------------------------------------------------
(* Text operations of Python's str *)

\* s[a:b] with 0-based, end-exclusive offsets 0 <= a, b <= len(s)
Slice(s, a, b) == SubSeq(s, a + 1, b)

\* s[a:]
SliceFrom(s, a) == SubSeq(s, a + 1, Len(s))

\* s[:b]
SliceTo(s, b) == SubSeq(s, 1, b)

\* sub occurs in s at 0-based offset i
OccursAt(s, sub, i) ==
    /\ i + Len(sub) <= Len(s)
    /\ \A k \in 1..Len(sub) : s[i + k] = sub[k]

\* sub in s
Contains(s, sub) == \E i \in 0..Len(s) : OccursAt(s, sub, i)

\* s.index(sub), for sub in s: the offset of the first occurrence
Index(s, sub) ==
    CHOOSE i \in 0..Len(s) :
        /\ OccursAt(s, sub, i)
        /\ \A j \in 0..(i - 1) : ~OccursAt(s, sub, j)

Whitespace == {" ", "\n", "\t"}

RECURSIVE LStrip(_)
LStrip(s) ==
    IF s # <<>> /\ Head(s) \in Whitespace THEN LStrip(Tail(s)) ELSE s

RECURSIVE RStrip(_)
RStrip(s) ==
    IF s # <<>> /\ s[Len(s)] \in Whitespace
    THEN RStrip(SubSeq(s, 1, Len(s) - 1))
    ELSE s

\* s.strip()
Strip(s) == RStrip(LStrip(s))

Digits == <<"0", "1", "2", "3", "4", "5", "6", "7", "8", "9">>

DigitValue(c) == (CHOOSE i \in 1..10 : Digits[i] = c) - 1

\* s.isdigit()
IsDigit(s) ==
    /\ s # <<>>
    /\ \A k \in 1..Len(s) : \E i \in 1..10 : Digits[i] = s[k]

\* int(s), for s.isdigit()
RECURSIVE ParseInt(_)
ParseInt(s) ==
    IF s = <<>> THEN 0
    ELSE 10 * ParseInt(SubSeq(s, 1, Len(s) - 1)) + DigitValue(s[Len(s)])

\* html.escape of one character (quote=True)
EscapeChar(c) ==
    CASE c = "&" -> <<"&", "a", "m", "p", ";">>
      [] c = "<" -> <<"&", "l", "t", ";">>
      [] c = ">" -> <<"&", "g", "t", ";">>
      [] c = "\"" -> <<"&", "q", "u", "o", "t", ";">>
      [] c = "'" -> <<"&", "#", "x", "2", "7", ";">>
      [] OTHER -> <<c>>

\* html.escape(s)
RECURSIVE Escape(_)
Escape(s) ==
    IF s = <<>> THEN <<>> ELSE EscapeChar(Head(s)) \o Escape(Tail(s))

\* sep.join(ps)
RECURSIVE Join(_, _)
Join(sep, ps) ==
    IF ps = <<>> THEN <<>>
    ELSE IF Len(ps) = 1 THEN ps[1]
    ELSE ps[1] \o sep \o Join(sep, Tail(ps))

-----------------------------------------------------------------------------
(* Optional values: None is <<>>, a present value v is <<v>> *)

None == <<>>
Some(v) == <<v>>

\* d.get(key, default) on an optional attribute
Get(opt, default) == IF opt = None THEN default ELSE opt[1]

-----------------------------------------------------------------------------
(* Publication and parse_rows *)

Publication(year, title, link, venue) ==
    [year |-> year, title |-> title, link |-> link, venue |-> venue]

\* the test with the cutoff off by one
BelowCutoffOffByOne(year) == year < START_YEAR - 1

\* year < START_YEAR, the test that ends the scan of a page
BelowCutoff(year) == year < START_YEAR

\* venue of a row: the second div.gs_gray, if there is one
Venue(detail_lines) ==
    IF Len(detail_lines) > 1 THEN Strip(detail_lines[2]) ELSE <<>>

\* body of the for loop over the rows, from row i on, with its continue and break
RECURSIVE ParseFrom(_, _, _)
ParseFrom(rows, i, publications) ==
    IF i > Len(rows) THEN publications
    ELSE LET row == rows[i] IN
        IF row.year_span = None THEN ParseFrom(rows, i + 1, publications)
        ELSE LET year_text == Strip(row.year_span[1]) IN
            IF ~IsDigit(year_text) THEN ParseFrom(rows, i + 1, publications)
            ELSE LET year == ParseInt(year_text) IN
                IF BelowCutoff(year) THEN publications
                ELSE IF row.link_tag = None
                THEN ParseFrom(rows, i + 1, publications)
                ELSE LET link_tag == row.link_tag[1]
                         title == Strip(link_tag.text)
                         link == <<SCHOLAR_HOST>> \o Get(link_tag.href, <<>>)
                         venue == Venue(row.detail_lines)
                     IN ParseFrom(rows, i + 1,
                            Append(publications,
                                   Publication(year, title, link, venue)))

parse_rows(soup) == ParseFrom(soup, 1, <<>>)

-----------------------------------------------------------------------------
(* chunk and build_html *)

\* list(chunk(items, size))
RECURSIVE chunk(_, _)
chunk(items, size) ==
    IF items = <<>> THEN <<>>
    ELSE IF Len(items) <= size THEN <<items>>
    ELSE <<SubSeq(items, 1, size)>> \o chunk(SubSeq(items, size + 1, Len(items)), size)

\* the loop by_year.setdefault(pub.year, []).append(pub) over pubs, from by_year
RECURSIVE GroupByYear(_, _)
GroupByYear(pubs, by_year) ==
    IF pubs = <<>> THEN by_year
    ELSE LET pub == Head(pubs) IN
        GroupByYear(Tail(pubs),
            IF pub.year \in DOMAIN by_year
            THEN [by_year EXCEPT ![pub.year] = Append(@, pub)]
            ELSE [y \in DOMAIN by_year \cup {pub.year} |->
                    IF y = pub.year THEN <<pub>> ELSE by_year[y]])

SetMax(S) == CHOOSE m \in S : \A x \in S : x <= m
SetMin(S) == CHOOSE m \in S : \A x \in S : m <= x

RECURSIVE SortedAscending(_)
SortedAscending(S) ==
    IF S = {} THEN <<>> ELSE <<SetMin(S)>> \o SortedAscending(S \ {SetMin(S)})

\* sorted(keys, reverse=True)
RECURSIVE SortedReverse(_)
SortedReverse(S) ==
    IF S = {} THEN <<>> ELSE <<SetMax(S)>> \o SortedReverse(S \ {SetMax(S)})

\* f"  <div class=\"bigtitle\">{year}</div>"
Heading(year) == <<BIGTITLE_OPEN, ToString(year), DIV_CLOSE>>

SPACER == <<"  <div class=\"spacer\"></div>">>
ROW_OPEN == <<"  <div class=\"row\">">>
ROW_CLOSE == <<"  </div>">>
CARD_HEAD == "      <div class=\"col-md-4 paperbox\">\n        <div class=\"media\">\n          <div class=\"media-body\">\n            <div class=\"smallhead media-heading\">\n              <a href=\""
CARD_LINK_END == "\" class=\"off\">"
CARD_TITLE_END == "</a>\n            </div>\n            <p class=\"note\"><i>"
CARD_TAIL == "</i></p>\n          </div>\n        </div>\n      <div class=\"bigspacer\"></div><div class=\"spacer\"></div>\n      </div>"

\* the part appended for one publication
Card(pub) ==
    <<CARD_HEAD>> \o Escape(pub.link) \o <<CARD_LINK_END>> \o Escape(pub.title)
        \o <<CARD_TITLE_END>> \o Escape(pub.venue) \o <<CARD_TAIL>>

RECURSIVE Cards(_)
Cards(group) ==
    IF group = <<>> THEN <<>> ELSE <<Card(Head(group))>> \o Cards(Tail(group))

\* the parts of the chunks of one year
RECURSIVE RowParts(_)
RowParts(groups) ==
    IF groups = <<>> THEN <<>>
    ELSE <<ROW_OPEN>> \o Cards(Head(groups)) \o <<ROW_CLOSE, <<>>>>
            \o RowParts(Tail(groups))

\* the parts of the years, in the order given
RECURSIVE YearParts(_, _)
YearParts(years, by_year) ==
    IF years = <<>> THEN <<>>
    ELSE <<Heading(Head(years)), SPACER>>
            \o RowParts(chunk(by_year[Head(years)], CHUNK_SIZE))
            \o YearParts(Tail(years), by_year)

\* the years without reverse=True
YearOrderAscending(by_year) == SortedAscending(DOMAIN by_year)

\* the order in which build_html emits the years
YearOrder(by_year) == SortedReverse(DOMAIN by_year)

\* parts, as build_html holds it before the join
build_parts(pubs) ==
    LET by_year == GroupByYear(pubs, <<>>)
    IN <<MARKER_START>> \o YearParts(YearOrder(by_year), by_year)
            \o <<MARKER_END, <<>>>>

build_html(pubs) == Join(<<"\n">>, build_parts(pubs))

-----------------------------------------------------------------------------
(* inject_html: a returned text, or SystemExit raised *)

Returned(text) == [raised |-> FALSE, value |-> text]
SystemExit == [raised |-> TRUE, value |-> <<>>]

\* inject_html with the end of the region at the start of MARKER_END
inject_html_KeepsEndMarker(existing, new_block) ==
    IF Contains(existing, MARKER_START) /\ Contains(existing, MARKER_END)
    THEN LET start == Index(existing, MARKER_START)
             end == Index(existing, MARKER_END)
         IN Returned(SliceTo(existing, start) \o new_block
                        \o SliceFrom(existing, end))
    ELSE IF ~Contains(existing, ANCHOR) THEN SystemExit
    ELSE LET idx == Index(existing, ANCHOR)
         IN Returned(SliceTo(existing, idx) \o new_block \o <<"\n">>
                        \o SliceFrom(existing, idx))

\* inject_html with the fragment inserted after the anchor
inject_html_AfterAnchor(existing, new_block) ==
    IF Contains(existing, MARKER_START) /\ Contains(existing, MARKER_END)
    THEN LET start == Index(existing, MARKER_START)
             end == Index(existing, MARKER_END) + Len(MARKER_END)
         IN Returned(SliceTo(existing, start) \o new_block
                        \o SliceFrom(existing, end))
    ELSE IF ~Contains(existing, ANCHOR) THEN SystemExit
    ELSE LET idx == Index(existing, ANCHOR) + Len(ANCHOR)
         IN Returned(SliceTo(existing, idx) \o new_block \o <<"\n">>
                        \o SliceFrom(existing, idx))

inject_html(existing, new_block) ==
    IF Contains(existing, MARKER_START) /\ Contains(existing, MARKER_END)
    THEN LET start == Index(existing, MARKER_START)
             end == Index(existing, MARKER_END) + Len(MARKER_END)
         IN Returned(SliceTo(existing, start) \o new_block
                        \o SliceFrom(existing, end))
    ELSE IF ~Contains(existing, ANCHOR) THEN SystemExit
    ELSE LET idx == Index(existing, ANCHOR)
         IN Returned(SliceTo(existing, idx) \o new_block \o <<"\n">>
                        \o SliceFrom(existing, idx))

-----------------------------------------------------------------------------
(* Inputs: the rows a listing page can hold *)

Row(year_span, link_tag, detail_lines) ==
    [year_span |-> year_span, link_tag |-> link_tag, detail_lines |-> detail_lines]

LinkTag(text, href) == [text |-> text, href |-> href]

Rows ==
    { Row(Some(<<"2", "0", "1", "9">>),
          Some(LinkTag(<<" ", "T", "<", " ">>, Some(<<"/", "c">>))),
          <<<<"a">>, <<"V", "&", "\n">>>>),
      Row(Some(<<" ", "2", "0", "1", "8", "\n">>),
          Some(LinkTag(<<" ">>, None)),
          <<<<"a">>>>),
      Row(Some(<<"2", "0", "1", "7">>),
          Some(LinkTag(<<"O">>, Some(<<"/", "o">>))),
          <<>>),
      Row(Some(<<"2", "0", "1", "9">>), None, <<>>),
      Row(Some(<<"n", "a">>), Some(LinkTag(<<"T">>, None)), <<>>),
      Row(None, Some(LinkTag(<<"T">>, None)), <<>>) }

\* the sequences over S of length at most n
RECURSIVE SeqsUpTo(_, _)
SeqsUpTo(S, n) ==
    IF n = 0 THEN {<<>>}
    ELSE LET shorter == SeqsUpTo(S, n - 1)
         IN shorter \cup {Append(q, x) : q \in shorter, x \in S}

\* the pages a listing can serve: at most MaxRows rows each
Pages == SeqsUpTo(Rows, MaxRows)

\* a listing has at most MaxPages pages with rows; past them a page is empty
PagesAt(offset) ==
    IF offset < MaxPages * PAGE_SIZE THEN Pages ELSE {<<>>}

\* the year of the last row of a page is a number below the cutoff
LastRowBelowCutoff(soup) ==
    /\ soup # <<>>
    /\ soup[Len(soup)].year_span # None
    /\ IsDigit(Strip(soup[Len(soup)].year_span[1]))
    /\ ParseInt(Strip(soup[Len(soup)].year_span[1])) < START_YEAR

-----------------------------------------------------------------------------
(* Inputs: documents *)

Pieces == { MARKER_START, MARKER_END, ANCHOR, <<M_PRE>>, <<"x">>, <<"\n">> }

RECURSIVE Concat(_)
Concat(ps) == IF ps = <<>> THEN <<>> ELSE Head(ps) \o Concat(Tail(ps))

\* documents of at most MaxPieces pieces
Documents == { Concat(ps) : ps \in SeqsUpTo(Pieces, MaxPieces) }

\* the documents of the runs of main
IndexFiles ==
    { <<"a">> \o MARKER_START \o <<"o">> \o MARKER_END \o <<"b">>,
      <<"a", "\n">> \o ANCHOR \o <<"b">>,
      <<"a">> \o MARKER_END \o <<"o">> \o MARKER_START \o <<"b">>,
      <<"a">> \o MARKER_START \o <<"b">> }

-----------------------------------------------------------------------------
(* Inputs: publication lists and fragments *)

PubYears == (START_YEAR - 1)..(START_YEAR + 2)

Titles == { <<"T">>, <<"<", "&">> }

Pubs ==
    { Publication(y, t, <<SCHOLAR_HOST, "/", "c">>, <<>>) : y \in PubYears, t \in Titles }

\* the lists build_html is applied to
PubLists == SeqsUpTo(Pubs, MaxPubs)

\* the lists whose fragment is spliced
SplicedLists ==
    { <<>>,
      <<Publication(2019, <<"T">>, <<SCHOLAR_HOST, "/", "c">>, <<"V">>)>>,
      <<Publication(2018, <<"<">>, <<SCHOLAR_HOST>>, <<>>),
        Publication(2017, <<"T">>, <<SCHOLAR_HOST>>, <<>>)>> }

\* fragments that build_html did not make
Fragments == { <<>>, <<"f">>, <<"f">> \o MARKER_END \o MARKER_START, ANCHOR }

-----------------------------------------------------------------------------
(* The run of main: fetch_publications, then the update of the file *)

NotCalled == Returned(<<>>)

\* the start of a run of main on one of the given files
InitRun(files) ==
    /\ pc = "fetch"
    /\ cstart = 0
    /\ all_pubs = <<>>
    /\ log = <<>>
    /\ file \in files
    /\ file0 = file
    /\ writes = 0
    /\ parts = <<>>
    /\ html_block = <<>>
    /\ current = <<>>
    /\ updated = NotCalled
    /\ again = NotCalled

Init == InitRun(IndexFiles)

\* all_pubs = pubs in place of all_pubs.extend(pubs)
ExtendOverwrites(all, pubs) == pubs

\* all_pubs.extend(pubs)
Extend(all, pubs) == all \o pubs

\* cstart += 20
NextOffset(offset) == offset + PAGE_SIZE

\* one iteration of the loop of fetch_publications, fetch_page returning soup
FetchPage ==
    /\ pc = "fetch"
    /\ \E soup \in PagesAt(cstart) :
        LET pubs == parse_rows(soup) IN
        /\ log' = Append(log, [cstart |-> cstart, ok |-> TRUE,
                               below |-> LastRowBelowCutoff(soup), pubs |-> pubs])
        /\ IF pubs = <<>>
           THEN /\ pc' = "main"
                /\ UNCHANGED <<all_pubs, cstart>>
           ELSE /\ all_pubs' = Extend(all_pubs, pubs)
                /\ IF pubs[Len(pubs)].year < START_YEAR
                   THEN /\ pc' = "main"
                        /\ UNCHANGED cstart
                   ELSE /\ pc' = "fetch"
                        /\ cstart' = NextOffset(cstart)
    /\ UNCHANGED <<file, file0, writes, parts, html_block, current, updated, again>>

\* fetch_page raises: requests.get fails or raise_for_status rejects the response
FetchFails ==
    /\ pc = "fetch"
    /\ log' = Append(log, [cstart |-> cstart, ok |-> FALSE, below |-> FALSE,
                           pubs |-> <<>>])
    /\ pc' = "HTTPError"
    /\ UNCHANGED <<cstart, all_pubs, file, file0, writes, parts, html_block,
                   current, updated, again>>

\* main writing the fragment of no publication before it returns 1
MainNoPubsWrites ==
    /\ pc = "main"
    /\ all_pubs = <<>>
    /\ file' = inject_html(file, build_html(all_pubs)).value
    /\ writes' = writes + 1
    /\ pc' = "exit1"
    /\ UNCHANGED <<cstart, all_pubs, log, file0, parts, html_block,
                   current, updated, again>>

\* main, after the crawl, with no publication: return 1
MainNoPubs ==
    /\ pc = "main"
    /\ all_pubs = <<>>
    /\ pc' = "exit1"
    /\ UNCHANGED <<cstart, all_pubs, log, file, file0, writes, parts, html_block,
                   current, updated, again>>

\* main, after the crawl, with publications: build, read, inject, write, return 0
MainUpdate ==
    /\ pc = "main"
    /\ all_pubs # <<>>
    /\ LET block == build_html(all_pubs)
           result == inject_html(file, block)
       IN /\ parts' = build_parts(all_pubs)
          /\ html_block' = block
          /\ current' = file
          /\ updated' = result
          /\ IF result.raised
             THEN /\ pc' = "SystemExit"
                  /\ UNCHANGED <<file, writes>>
             ELSE /\ file' = result.value
                  /\ writes' = writes + 1
                  /\ pc' = "exit0"
    /\ UNCHANGED <<cstart, all_pubs, log, file0, again>>

Next == FetchPage \/ FetchFails \/ MainNoPubs \/ MainUpdate

Spec == Init /\ [][Next]_vars

\* the crawl is one sequential loop: an iteration that can start is run
FairSpec ==
    InitRun({<<"a">> \o MARKER_START \o <<"o">> \o MARKER_END \o <<"b">>})
        /\ [][Next]_vars /\ WF_vars(FetchPage)

-----------------------------------------------------------------------------
(* build_html and inject_html applied to given inputs *)

InitFunctions(lists, documents) ==
    /\ pc = "start"
    /\ cstart = 0
    /\ all_pubs \in lists
    /\ log = <<>>
    /\ file = <<>>
    /\ file0 = <<>>
    /\ writes = 0
    /\ parts = <<>>
    /\ html_block = <<>>
    /\ current \in documents
    /\ updated = NotCalled
    /\ again = NotCalled

\* html_block = build_html(pubs)
BuildHtml ==
    /\ pc = "start"
    /\ parts' = build_parts(all_pubs)
    /\ html_block' = build_html(all_pubs)
    /\ pc' = "built"
    /\ UNCHANGED <<cstart, all_pubs, log, file, file0, writes, current, updated, again>>

\* a fragment given by the caller of inject_html
GivenFragment ==
    /\ pc = "start"
    /\ html_block' \in Fragments
    /\ pc' = "given"
    /\ UNCHANGED <<cstart, all_pubs, log, file, file0, writes, parts, current,
                   updated, again>>

\* updated = inject_html(current, html_block)
InjectHtml ==
    /\ pc \in {"built", "given"}
    /\ updated' = inject_html(current, html_block)
    /\ pc' = IF pc = "built" THEN "injected" ELSE "spliced"
    /\ UNCHANGED <<cstart, all_pubs, log, file, file0, writes, parts, html_block,
                   current, again>>

\* the next run on the same listing: inject_html(updated, html_block)
InjectAgain ==
    /\ pc \in {"injected", "spliced"}
    /\ ~updated.raised
    /\ again' = inject_html(updated.value, html_block)
    /\ pc' = "reinjected"
    /\ UNCHANGED <<cstart, all_pubs, log, file, file0, writes, parts, html_block,
                   current, updated>>

NextFunctions == BuildHtml \/ GivenFragment \/ InjectHtml \/ InjectAgain

\* inject_html on every document, with the fragments of a few lists
SpecSplice == InitFunctions(SplicedLists, Documents) /\ [][NextFunctions]_vars

\* build_html on every list, with one document
SpecBuild ==
    InitFunctions(PubLists, {MARKER_START \o MARKER_END}) /\ [][NextFunctions]_vars

-----------------------------------------------------------------------------
(* Properties of the crawl *)

Last(s) == s[Len(s)]

\* C2: the crawl stops at the first page whose last row's year is below the
\* cutoff: no page is fetched after such a page.
C2_StopsAtFirstPageBelowCutoff ==
    \A i \in 1..Len(log) : (log[i].ok /\ log[i].below) => i = Len(log)

\* C3: every record of the accumulator, at every step of the crawl, and every
\* record rendered into the fragment, has year >= START_YEAR.
C3_CutoffInvariant ==
    /\ \A i \in 1..Len(all_pubs) : all_pubs[i].year >= START_YEAR
    /\ \A y \in (START_YEAR - 2)..(START_YEAR - 1) :
          \A k \in 1..Len(parts) : parts[k] # Heading(y)

\* a page with a row below the cutoff after a kept row was crawled and rendered
C3_Witness ==
    /\ pc = "exit0"
    /\ \E i \in 1..Len(log) : log[i].below /\ log[i].pubs # <<>>
    /\ parts # <<>>

\* C9: every record returned by parse_rows and accumulated by the crawl has a
\* non-empty title.
C9_TitleNonEmpty ==
    \A i \in 1..Len(all_pubs) : all_pubs[i].title # <<>>

\* the records parsed from the pages fetched so far, in fetch order
RECURSIVE Parsed(_)
Parsed(entries) ==
    IF entries = <<>> THEN <<>> ELSE Head(entries).pubs \o Parsed(Tail(entries))

C10_Sequential ==
    /\ \A i \in 1..Len(log) : log[i].cstart = (i - 1) * PAGE_SIZE
    /\ \A i \in 1..Len(log) : log[i].pubs = <<>> => i = Len(log)
    /\ (log # <<>> /\ Last(log).pubs = <<>>) => pc # "fetch"
    /\ pc = "fetch" => cstart = Len(log) * PAGE_SIZE
    /\ all_pubs = Parsed(log)

\* C10: the offsets fetched are 0, 20, 40, ... in this order, each once; a page
\* that yields no record is the last page fetched; the accumulator is the
\* concatenation, in fetch order, of the records parsed from the pages; and
\* the crawl of a listing with finitely many pages eventually ends.
C10_CrawlProgress == [](C10_Sequential) /\ <>(pc # "fetch")

\* the crawl went through every page of the listing and stopped on the empty one
C10_Witness ==
    /\ pc = "main"
    /\ Len(log) = MaxPages + 1
    /\ Last(log).ok /\ Last(log).pubs = <<>>
    /\ Len(all_pubs) > MaxPages

\* C7: the file is written at most once, and only in a run that returns 0, which
\* had a record and a successful splice; in every other outcome the file is as
\* it was when the run started.
C7_WrittenOnlyOnSuccess ==
    /\ writes <= 1
    /\ writes = 1 <=> pc = "exit0"
    /\ pc = "exit0" => all_pubs # <<>> /\ ~updated.raised /\ file = updated.value
    /\ pc # "exit0" => file = file0

\* a run that failed in the splice, after a crawl that returned records
C7_Witness ==
    /\ pc = "SystemExit"
    /\ all_pubs # <<>>
    /\ updated.raised
    /\ file = file0

-----------------------------------------------------------------------------
(* Properties of inject_html *)

Injected == pc \in {"injected", "spliced", "reinjected"}

HasBothMarkers(doc) == Contains(doc, MARKER_START) /\ Contains(doc, MARKER_END)

\* C1: with F = build_html(P), splicing F into a document already spliced with
\* F gives that document again.
C1_Idempotent ==
    (pc = "reinjected" /\ parts # <<>>) =>
        /\ ~again.raised
        /\ again.value = updated.value

\* C4: for current = A + MARKER_START + old + MARKER_END + B, with no
\* MARKER_START in A and no MARKER_END in A + MARKER_START + old, the result is
\* A + html_block + B.  A ends at offset i and MARKER_END starts at offset j.
C4_SpliceCorrect ==
    Injected =>
        \A i \in 0..Len(current) : \A j \in 0..Len(current) :
            ( /\ OccursAt(current, MARKER_START, i)
              /\ OccursAt(current, MARKER_END, j)
              /\ i + Len(MARKER_START) <= j
              /\ ~Contains(SliceTo(current, i), MARKER_START)
              /\ ~Contains(SliceTo(current, j), MARKER_END) )
            => /\ ~updated.raised
               /\ updated.value =
                    SliceTo(current, i) \o html_block
                        \o SliceFrom(current, j + Len(MARKER_END))

\* a document A + MARKER_START + old + MARKER_END with A and old not empty was
\* spliced with a fragment that is not empty
C4_Witness ==
    /\ Injected
    /\ html_block # <<>>
    /\ \E i \in 1..Len(current) : \E j \in 0..Len(current) :
        /\ OccursAt(current, MARKER_START, i)
        /\ OccursAt(current, MARKER_END, j)
        /\ i + Len(MARKER_START) < j
        /\ ~Contains(SliceTo(current, i), MARKER_START)
        /\ ~Contains(SliceTo(current, j), MARKER_END)

\* C5: for a document with both markers, in any order, the result is the
\* document with the one region current[s:e], from the first MARKER_START
\* through the first MARKER_END, replaced by the fragment: what precedes and
\* what follows the region is kept once, and the length is
\* len(current) - len(region) + len(html_block).
C5_RestUntouched ==
    (Injected /\ HasBothMarkers(current)) =>
        LET s == Index(current, MARKER_START)
            e == Index(current, MARKER_END) + Len(MARKER_END)
            region == Slice(current, s, e)
        IN /\ ~updated.raised
           /\ Contains(region, MARKER_START) /\ Contains(region, MARKER_END)
           /\ updated.value =
                SliceTo(current, s) \o html_block
                    \o SliceFrom(current, s + Len(region))
           /\ Len(updated.value) = Len(current) - Len(region) + Len(html_block)

\* C6: for a document with no marker and with the anchor, the result is the
\* text before the first anchor, the fragment, one newline, and the document
\* from the anchor on; without the inserted text it is the document.
C6_FallbackInsertion ==
    ( /\ Injected
      /\ ~Contains(current, MARKER_START)
      /\ ~Contains(current, MARKER_END)
      /\ Contains(current, ANCHOR) )
    => /\ ~updated.raised
       /\ \E k \in 0..Len(current) :
            /\ OccursAt(current, ANCHOR, k)
            /\ \A m \in 0..(k - 1) : ~OccursAt(current, ANCHOR, m)
            /\ SliceTo(updated.value, k) = SliceTo(current, k)
            /\ Slice(updated.value, k, k + Len(html_block)) = html_block
            /\ updated.value[k + Len(html_block) + 1] = "\n"
            /\ SliceFrom(updated.value, k + Len(html_block) + 1)
                    = SliceFrom(current, k)
            /\ SliceTo(updated.value, k)
                    \o SliceFrom(updated.value, k + Len(html_block) + 1)
                    = current

\* a document with text before the anchor, a second anchor and no marker was
\* spliced with a fragment that is not empty
C6_Witness ==
    /\ Injected
    /\ html_block # <<>>
    /\ ~Contains(current, MARKER_START)
    /\ ~Contains(current, MARKER_END)
    /\ \E k \in 1..Len(current) : \E m \in 0..Len(current) :
        /\ OccursAt(current, ANCHOR, k)
        /\ OccursAt(current, ANCHOR, m)
        /\ k < m
    /\ ~updated.raised

-----------------------------------------------------------------------------
(* Properties of build_html *)

IsHeading(p) == Len(p) = 3 /\ p[1] = BIGTITLE_OPEN /\ p[3] = DIV_CLOSE
IsCard(p) == Len(p) > 0 /\ p[1] = CARD_HEAD

HeadingIndexes == {k \in 1..Len(parts) : IsHeading(parts[k])}

YearsOf(pubs) == {pubs[i].year : i \in 1..Len(pubs)}

\* the records of year y, in the order of pubs
OfYear(pubs, y) == SelectSeq(pubs, LAMBDA p : p.year = y)

\* the cards among parts[a..b], in order
CardsBetween(a, b) == SelectSeq(SubSeq(parts, a, b), IsCard)

\* the index of the heading after the one at h, or the end of parts
NextHeading(h) ==
    SetMin({k \in HeadingIndexes : k > h} \cup {Len(parts) + 1})

\* C8: the fragment has one heading for each year of the input, the headings
\* are in strictly descending order of year, and the cards under the heading of
\* a year are the records of this year, each once, in their input order; there
\* is no other card.
C8_GroupingCorrect ==
    pc = "built" =>
        /\ \A y \in YearsOf(all_pubs) :
              Cardinality({k \in HeadingIndexes : parts[k] = Heading(y)}) = 1
        /\ \A k \in HeadingIndexes :
              \E y \in YearsOf(all_pubs) : parts[k] = Heading(y)
        /\ \A k1 \in HeadingIndexes : \A k2 \in HeadingIndexes :
              \A y1 \in YearsOf(all_pubs) : \A y2 \in YearsOf(all_pubs) :
                (k1 < k2 /\ parts[k1] = Heading(y1) /\ parts[k2] = Heading(y2))
                    => y1 > y2
        /\ \A y \in YearsOf(all_pubs) : \A h \in HeadingIndexes :
              parts[h] = Heading(y) =>
                CardsBetween(h + 1, NextHeading(h) - 1)
                    = [i \in 1..Len(OfYear(all_pubs, y)) |->
                            Card(OfYear(all_pubs, y)[i])]
        /\ Len(CardsBetween(1, Len(parts))) = Len(all_pubs)
        /\ html_block = Join(<<"\n">>, parts)

\* a list that is not sorted by year, with a year that fills more than one
\* chunk, was rendered
C8_Witness ==
    /\ pc = "built"
    /\ Len(all_pubs) > CHUNK_SIZE
    /\ \E i \in 1..Len(all_pubs) : \E j \in 1..Len(all_pubs) :
          i < j /\ all_pubs[i].year < all_pubs[j].year
    /\ \E y \in YearsOf(all_pubs) : Len(OfYear(all_pubs, y)) > CHUNK_SIZE - 1

=============================================================================
